---- MODULE Spec2Model ----
(***************************************************************************)
(* A model of parse_pto.py: the scanner of panorama project (pto) files,   *)
(* its header index / field slots (make_member_access), its lookups and    *)
(* its serializer (pto); and of the two request handlers of app.py that    *)
(* use it (list.GET, load.GET).                                            *)
(*                                                                         *)
(* Text is modelled as a sequence of one-character strings, positions are  *)
(* 1-based (Python's index k is position k+1 here).  A regular expression  *)
(* is modelled by what Python's backtracking matcher does with it: each    *)
(* ...End operator returns the position right after the match that starts  *)
(* at p, or 0 when there is no match at p.                                 *)
(***************************************************************************)
EXTENDS Integers, Sequences, FiniteSets, TLC

(***************************************************************************)
(* Characters                                                              *)
(***************************************************************************)
Lower ==
    {"a","b","c","d","e","f","g","h","i","j","k","l","m",
     "n","o","p","q","r","s","t","u","v","w","x","y","z"}

Upper ==
    {"A","B","C","D","E","F","G","H","I","J","K","L","M",
     "N","O","P","Q","R","S","T","U","V","W","X","Y","Z"}

\* string.letters
letters == Lower \cup Upper

\* standard_headers = 'pvimozck'
standard_headers == {"p","v","i","m","o","z","c","k"}

Digits == {"0","1","2","3","4","5","6","7","8","9"}

\* what \s matches
Whitespace == {" ", "\t", "\n", "\r", "\f"}

\* the character at position p, "" past the end of the text
At(s, p) == IF p \in 1..Len(s) THEN s[p] ELSE ""

IsNonSpace(c) == c # "" /\ c \notin Whitespace

\* s[p..] (Python s[p-1:])
From(s, p) == SubSeq(s, p, Len(s))

\* F applied to the value of e: the value is computed once and shared
With(e, F(_)) == CHOOSE r \in {F(v) : v \in {e}} : TRUE

\* s[p..q-1] (Python s[p-1:q-1])
Slice(s, p, q) == SubSeq(s, p, q - 1)

\* Python's s.startswith(prefix)
StartsWith(s, prefix) ==
    /\ Len(prefix) <= Len(s)
    /\ SubSeq(s, 1, Len(prefix)) = prefix

(***************************************************************************)
(* Greedy runs: \s*, \d*, \S+                                              *)
(***************************************************************************)
SpaceEnd(s, p) ==
    CHOOSE q \in p..(Len(s) + 1) :
        /\ \A k \in p..(q - 1) : s[k] \in Whitespace
        /\ At(s, q) \notin Whitespace

DigitsEnd(s, p) ==
    CHOOSE q \in p..(Len(s) + 1) :
        /\ \A k \in p..(q - 1) : s[k] \in Digits
        /\ At(s, q) \notin Digits

NonSpaceEnd(s, p) ==
    CHOOSE q \in p..(Len(s) + 1) :
        /\ \A k \in p..(q - 1) : IsNonSpace(s[k])
        /\ ~IsNonSpace(At(s, q))

(***************************************************************************)
(* The value alternatives of pto_member_re, each tried at position p       *)
(***************************************************************************)
\* [+-]? ( \d+ [.] \d*  |  [.] \d+ )
FloatEnd(s, p) ==
    With(IF At(s, p) \in {"+", "-"} THEN p + 1 ELSE p, LAMBDA q :
    With(DigitsEnd(s, q), LAMBDA d :
        IF d > q /\ At(s, d) = "."
        THEN DigitsEnd(s, d + 1)
        ELSE IF At(s, q) = "."
             THEN With(DigitsEnd(s, q + 1), LAMBDA f :
                      IF f > q + 1 THEN f ELSE 0)
             ELSE 0))

\* [+-]?\d+
IntegralEnd(s, p) ==
    With(IF At(s, p) \in {"+", "-"} THEN p + 1 ELSE p, LAMBDA q :
    With(DigitsEnd(s, q), LAMBDA d : IF d > q THEN d ELSE 0))

\* [+-]?\d+ , [+-]?\d+ , [+-]?\d+ , [+-]?\d+
\* , [+-]?\d+  after a match that ended at a (0: the match before it failed)
CommaIntegralEnd(s, a) ==
    IF a > 0 /\ At(s, a) = "," THEN IntegralEnd(s, a + 1) ELSE 0

RectangleEnd(s, p) ==
    CommaIntegralEnd(s, CommaIntegralEnd(s, CommaIntegralEnd(s, IntegralEnd(s, p))))

\* =\d+
BackrefEnd(s, p) ==
    IF At(s, p) = "="
    THEN With(DigitsEnd(s, p + 1), LAMBDA d : IF d > p + 1 THEN d ELSE 0)
    ELSE 0

\* " ( [^"] | ( \\ " ) )* "   The first branch of the group takes every
\* character that is not a quote, a backslash included, so the group stops
\* at the first quote after the opening one and that quote closes the string.
StringEnd(s, p) ==
    IF At(s, p) = "\"" /\ \E q \in (p + 1)..Len(s) : s[q] = "\""
    THEN 1 + (CHOOSE q \in (p + 1)..Len(s) :
                 /\ s[q] = "\""
                 /\ \A k \in (p + 1)..(q - 1) : s[k] # "\"")
    ELSE 0

\* \S+
WordEnd(s, p) ==
    With(NonSpaceEnd(s, p), LAMBDA e : IF e > p THEN e ELSE 0)

(***************************************************************************)
(* Conversions: int(), float(), str()                                      *)
(***************************************************************************)
DigitVal(c) ==
    CASE c = "0" -> 0 [] c = "1" -> 1 [] c = "2" -> 2 [] c = "3" -> 3
      [] c = "4" -> 4 [] c = "5" -> 5 [] c = "6" -> 6 [] c = "7" -> 7
      [] c = "8" -> 8 [] c = "9" -> 9

DigitChar(n) ==
    CASE n = 0 -> "0" [] n = 1 -> "1" [] n = 2 -> "2" [] n = 3 -> "3"
      [] n = 4 -> "4" [] n = 5 -> "5" [] n = 6 -> "6" [] n = 7 -> "7"
      [] n = 8 -> "8" [] n = 9 -> "9"

RECURSIVE NatOfFirst(_, _)
\* the number the first n digits of ds spell
NatOfFirst(ds, n) ==
    IF n = 0 THEN 0 ELSE 10 * NatOfFirst(ds, n - 1) + DigitVal(ds[n])

\* the number a run of decimal digits spells (0 for the empty run)
NatOf(ds) == NatOfFirst(ds, Len(ds))

RECURSIVE NatStr(_)
\* the decimal spelling of a natural number
NatStr(n) ==
    IF n < 10 THEN <<DigitChar(n)>>
    ELSE NatStr(n \div 10) \o <<DigitChar(n % 10)>>

\* int(text) for text matching [+-]?\d+
IntOf(t) ==
    IF At(t, 1) = "-" THEN 0 - NatOf(From(t, 2))
    ELSE IF At(t, 1) = "+" THEN NatOf(From(t, 2))
    ELSE NatOf(t)

\* str(n), '%d' % n
IntStr(n) == IF n < 0 THEN <<"-">> \o NatStr(0 - n) ELSE NatStr(n)

\* ds without the zeros it ends with
StripZerosRight(ds) ==
    SubSeq(ds, 1, CHOOSE n \in 0..Len(ds) :
                      /\ n = 0 \/ ds[n] # "0"
                      /\ \A k \in (n + 1)..Len(ds) : ds[k] = "0")

\* float(text) for text matching the float alternative.  A float is kept as
\* <<sign, mantissa, scale>>, the decimal sign * mantissa / 10^scale with no
\* trailing zero in the fraction; the sign of a zero is kept, as in IEEE.
\* Exact for numerals of fewer than 16 significant digits.
FloatOf(t) ==
    With(IF At(t, 1) \in {"+", "-"} THEN 2 ELSE 1, LAMBDA q :
    With(CHOOSE k \in q..Len(t) : t[k] = ".", LAMBDA dot :
    With(StripZerosRight(From(t, dot + 1)), LAMBDA fp :
        <<IF At(t, 1) = "-" THEN 0 - 1 ELSE 1,
          NatOf(Slice(t, q, dot) \o fp), Len(fp)>>)))

\* n zeros
Zeros(n) == [k \in 1..n |-> "0"]

\* the exponent notation of the digits D with decimal exponent e
ExponentStr(D, e) ==
    <<D[1]>> \o (IF Len(StripZerosRight(D)) = 1 THEN <<>>
                 ELSE <<".">> \o From(StripZerosRight(D), 2))
            \o <<"e", IF e < 0 THEN "-" ELSE "+">>
            \o (IF e > 0 - 10 /\ e < 10 THEN <<"0">> ELSE <<>>)
            \o NatStr(IF e < 0 THEN 0 - e ELSE e)

\* the positional notation of the digits P with sc of them after the point
PositionalStr(P, sc) ==
    IF sc = 0 THEN P \o <<".", "0">>
    ELSE SubSeq(P, 1, Len(P) - sc) \o <<".">> \o SubSeq(P, Len(P) - sc + 1, Len(P))

\* the digits D of the mantissa with scale sc, as str() spells them
MantissaStr(D, sc) ==
    IF Len(D) - 1 - sc < 0 - 4 \/ Len(D) - 1 - sc >= 12
    THEN ExponentStr(D, Len(D) - 1 - sc)
    ELSE PositionalStr(IF Len(D) <= sc THEN Zeros(sc + 1 - Len(D)) \o D ELSE D, sc)

\* str(x) of a float, Python 2's '%.12g' with '.0' appended to an integral
\* result: positional notation for a decimal exponent in -4..11, exponent
\* notation outside.  Exact for values of at most 12 significant digits.
FloatStr(v) ==
    (IF v[1] < 0 THEN <<"-">> ELSE <<>>)
        \o (IF v[2] = 0 THEN <<"0", ".", "0">> ELSE MantissaStr(NatStr(v[2]), v[3]))

(***************************************************************************)
(* Member values.  A value is a record of the same shape for every         *)
(* datatype: num holds the numbers (one for int and back reference, four   *)
(* for a rectangle, <<sign, mantissa, scale>> for a float), str the text   *)
(* of a string or word.                                                    *)
(***************************************************************************)
NumValue(ns) == [num |-> ns, str |-> <<>>]

StrValue(t) == [num |-> <<>>, str |-> t]

(***************************************************************************)
(* Regular expression matches.  A match is a record of the groups the code *)
(* reads; a group that did not take part in the match is <<>> (Python's    *)
(* None, which the code tests by truth value as it would test '').         *)
(***************************************************************************)
NoMatch ==
    [ok |-> FALSE, end |-> 0, member_qualifier |-> <<>>, member_text |-> <<>>,
     float_value |-> <<>>, rectangle_value |-> <<>>, integral_value |-> <<>>,
     backref_value |-> <<>>, string_value |-> <<>>, word_value |-> <<>>]

\* where alternative a of <member_text> ends when tried at p (0: no match)
AltEnd(a, s, p) ==
    CASE a = "float_value"     -> FloatEnd(s, p)
      [] a = "rectangle_value" -> RectangleEnd(s, p)
      [] a = "integral_value"  -> IntegralEnd(s, p)
      [] a = "backref_value"   -> BackrefEnd(s, p)
      [] a = "string_value"    -> StringEnd(s, p)
      [] a = "word_value"      -> WordEnd(s, p)

\* a variant of the order below, the integer tried before the float: the
\* precedence property must tell the two apart
IntegralFirstAlternatives ==
    <<"integral_value", "float_value", "rectangle_value",
      "backref_value", "string_value", "word_value">>

\* the alternatives of <member_text> in pto_member_re, in the order written
PtoAlternatives ==
    <<"float_value", "rectangle_value", "integral_value",
      "backref_value", "string_value", "word_value">>

\* the alternatives of <member_text> in hugin_key_value_re
HuginAlternatives ==
    <<"float_value", "integral_value", "string_value", "word_value">>

\* the alternatives of <member_text> in imgfile_data_re
ImgfileAlternatives ==
    <<"float_value", "integral_value", "string_value", "word_value">>

\* the match of <member_text> by alternative a, from p to q
TextMatch(a, s, p, q) ==
    [NoMatch EXCEPT !.ok = TRUE, !.end = q, !.member_text = Slice(s, p, q),
                    ![a] = Slice(s, p, q)]

RECURSIVE TryAlternatives(_, _, _, _)
\* an alternation takes its first alternative that matches: the k-th, else
\* the ones after it
TryAlternatives(alts, s, p, k) ==
    IF k > Len(alts) THEN NoMatch
    ELSE With(AltEnd(alts[k], s, p), LAMBDA q :
             IF q > 0 THEN TextMatch(alts[k], s, p, q)
             ELSE TryAlternatives(alts, s, p, k + 1))

\* <member_text> tried at p (nothing follows the group in the pattern, so no
\* later failure re-opens the choice of the alternative)
MemberText(alts, s, p) == TryAlternatives(alts, s, p, 1)

\* the lengths of <member_qualifier> at q, in the order the matcher tries
\* them: R[a-e] | V[a-dxym] | T[xyzrs][XYZ]* | E[rb] | Eev | [A-Za-z]
\* (the greedy [XYZ]* gives its characters back one at a time)
QualifierLengths(s, q) ==
    (IF At(s, q) = "R" /\ At(s, q + 1) \in {"a","b","c","d","e"}
     THEN <<2>> ELSE <<>>)
     \o (IF At(s, q) = "V" /\ At(s, q + 1) \in {"a","b","c","d","x","y","m"}
         THEN <<2>> ELSE <<>>)
     \o (IF At(s, q) = "T" /\ At(s, q + 1) \in {"x","y","z","r","s"}
         THEN With(CHOOSE e \in (q + 2)..(Len(s) + 1) :
                      /\ \A k \in (q + 2)..(e - 1) : s[k] \in {"X", "Y", "Z"}
                      /\ At(s, e) \notin {"X", "Y", "Z"},
                   LAMBDA e : [k \in 1..(e - q - 1) |-> e - q - k])
         ELSE <<>>)
     \o (IF At(s, q) = "E" /\ At(s, q + 1) \in {"r","b"} THEN <<2>> ELSE <<>>)
     \o (IF At(s, q) = "E" /\ At(s, q + 1) = "e" /\ At(s, q + 2) = "v"
         THEN <<3>> ELSE <<>>)
     \o (IF At(s, q) \in letters THEN <<1>> ELSE <<>>)

RECURSIVE TryQualifiers(_, _, _, _)
\* the qualifier of the k-th length, when <member_text> matches after it,
\* else the lengths after it
TryQualifiers(s, q, lens, k) ==
    IF k > Len(lens) THEN NoMatch
    ELSE With(MemberText(PtoAlternatives, s, q + lens[k]), LAMBDA m :
             IF m.ok
             THEN [m EXCEPT !.member_qualifier = Slice(s, q, q + lens[k])]
             ELSE TryQualifiers(s, q, lens, k + 1))

\* pto_member_re tried at start position p0
PtoMemberMatch(s, p0) ==
    With(SpaceEnd(s, p0), LAMBDA q :
        TryQualifiers(s, q, QualifierLengths(s, q), 1))

\* [^=\s]+ at q: the end of the run (q when the run is empty)
KeyEnd(s, q) ==
    CHOOSE e \in q..(Len(s) + 1) :
        /\ \A k \in q..(e - 1) : IsNonSpace(s[k]) /\ s[k] # "="
        /\ ~(IsNonSpace(At(s, e)) /\ At(s, e) # "=")

\* hugin_key_value_re tried at start position p0.  The key run is greedy and
\* must be followed by '=': giving characters back never helps, they are not '='.
HuginKeyValueMatch(s, p0) ==
    With(SpaceEnd(s, p0), LAMBDA q :
    With(KeyEnd(s, q), LAMBDA e :
        IF e > q /\ At(s, e) = "="
        THEN With(MemberText(HuginAlternatives, s, e + 1), LAMBDA m :
                 IF m.ok THEN [m EXCEPT !.member_qualifier = Slice(s, q, e)]
                 ELSE NoMatch)
        ELSE NoMatch))

\* imgfile_data_re tried at start position p0
ImgfileDataMatch(s, p0) == MemberText(ImgfileAlternatives, s, SpaceEnd(s, p0))

\* re.match at one start position
MatchAt(re, s, p0) ==
    CASE re = "pto_member_re"      -> PtoMemberMatch(s, p0)
      [] re = "hugin_key_value_re" -> HuginKeyValueMatch(s, p0)
      [] re = "imgfile_data_re"    -> ImgfileDataMatch(s, p0)

RECURSIVE FindIter(_, _, _)
\* re.finditer(s, pos - 1): the match at the first start position from pos on
\* that has one, then the matches from where it ended (no match of these
\* patterns is empty)
FindIter(re, s, pos) ==
    IF pos > Len(s) THEN <<>>
    ELSE With(MatchAt(re, s, pos), LAMBDA m :
             IF m.ok THEN <<m>> \o FindIter(re, s, m.end)
             ELSE FindIter(re, s, pos + 1))

(***************************************************************************)
(* pto_member objects                                                      *)
(***************************************************************************)
\* the groups left, right, top, bottom of a rectangle match, through int()
RectangleOf(rv) ==
    With(IntegralEnd(rv, 1), LAMBDA a :
    With(IntegralEnd(rv, a + 1), LAMBDA b :
    With(IntegralEnd(rv, b + 1), LAMBDA c :
        <<IntOf(Slice(rv, 1, a)), IntOf(Slice(rv, a + 1, b)),
          IntOf(Slice(rv, b + 1, c)), IntOf(From(rv, c + 1))>>)))

\* A member whose datatype is "" is one the constructor could not classify:
\* the code raises SyntaxError for it.
Member(type, separator, text, datatype, value) ==
    [type |-> type, separator |-> separator, text |-> text,
     datatype |-> datatype, value |-> value]

\* a variant of the loop body below without its last test, the one for
\* word_value: a match by the word alternative is left without a datatype
PtoMemberOfWithoutWord(m) ==
    IF m.float_value # <<>>
    THEN Member(m.member_qualifier, <<>>, m.member_text, "f",
                NumValue(FloatOf(m.float_value)))
    ELSE IF m.rectangle_value # <<>>
    THEN Member(m.member_qualifier, <<>>, m.member_text, "r",
                NumValue(RectangleOf(m.rectangle_value)))
    ELSE IF m.integral_value # <<>>
    THEN Member(m.member_qualifier, <<>>, m.member_text, "i",
                NumValue(<<IntOf(m.integral_value)>>))
    ELSE IF m.backref_value # <<>>
    THEN Member(m.member_qualifier, <<"=">>, m.member_text, "b",
                NumValue(<<IntOf(From(m.backref_value, 2))>>))
    ELSE IF m.string_value # <<>>
    THEN Member(m.member_qualifier, <<>>, m.member_text, "s",
                StrValue(SubSeq(m.string_value, 2, Len(m.string_value) - 1)))
    ELSE Member(m.member_qualifier, <<>>, m.member_text, "", StrValue(<<>>))

\* the body of the loop of pto_line.__init__ for one match m
PtoMemberOf(m) ==
    IF m.float_value # <<>>
    THEN Member(m.member_qualifier, <<>>, m.member_text, "f",
                NumValue(FloatOf(m.float_value)))
    ELSE IF m.rectangle_value # <<>>
    THEN Member(m.member_qualifier, <<>>, m.member_text, "r",
                NumValue(RectangleOf(m.rectangle_value)))
    ELSE IF m.integral_value # <<>>
    THEN Member(m.member_qualifier, <<>>, m.member_text, "i",
                NumValue(<<IntOf(m.integral_value)>>))
    ELSE IF m.backref_value # <<>>
    THEN Member(m.member_qualifier, <<"=">>, m.member_text, "b",
                NumValue(<<IntOf(From(m.backref_value, 2))>>))
    ELSE IF m.string_value # <<>>
    THEN Member(m.member_qualifier, <<>>, m.member_text, "s",
                StrValue(SubSeq(m.string_value, 2, Len(m.string_value) - 1)))
    ELSE IF m.word_value # <<>>
    THEN Member(m.member_qualifier, <<>>, m.member_text, "w",
                StrValue(m.word_value))
    ELSE Member(m.member_qualifier, <<>>, m.member_text, "", StrValue(<<>>))

\* the body of the loops of hugin_extension_line.__init__ (qualifier the key,
\* separator '=') and imgfile_extension_line.__init__ (qualifier '', separator '')
ExtensionMemberOf(type, separator, m) ==
    IF m.float_value # <<>>
    THEN Member(type, separator, m.member_text, "f",
                NumValue(FloatOf(m.float_value)))
    ELSE IF m.integral_value # <<>>
    THEN Member(type, separator, m.member_text, "i",
                NumValue(<<IntOf(m.integral_value)>>))
    ELSE IF m.string_value # <<>>
    THEN Member(type, separator, m.member_text, "s",
                StrValue(SubSeq(m.string_value, 2, Len(m.string_value) - 1)))
    ELSE IF m.word_value # <<>>
    THEN Member(type, separator, m.member_text, "w", StrValue(m.word_value))
    ELSE Member(type, separator, m.member_text, "", StrValue(<<>>))

\* a variant of pto_member.__str__ without its branch for strings: the value
\* of a string is written without the quotes the scan took off
MemberStrUnquoted(m) ==
    IF m.datatype = "r"
    THEN m.type \o m.separator
            \o IntStr(m.value.num[1]) \o <<",">> \o IntStr(m.value.num[2])
            \o <<",">> \o IntStr(m.value.num[3]) \o <<",">> \o IntStr(m.value.num[4])
    ELSE m.type \o m.separator
            \o (CASE m.datatype = "f" -> FloatStr(m.value.num)
                  [] m.datatype \in {"i", "b"} -> IntStr(m.value.num[1])
                  [] OTHER -> m.value.str)

\* pto_member.__str__
MemberStr(m) ==
    IF m.datatype = "s"
    THEN m.type \o m.separator \o <<"\"">> \o m.value.str \o <<"\"">>
    ELSE IF m.datatype = "r"
    THEN m.type \o m.separator
            \o IntStr(m.value.num[1]) \o <<",">> \o IntStr(m.value.num[2])
            \o <<",">> \o IntStr(m.value.num[3]) \o <<",">> \o IntStr(m.value.num[4])
    ELSE m.type \o m.separator
            \o (CASE m.datatype = "f" -> FloatStr(m.value.num)
                  [] m.datatype \in {"i", "b"} -> IntStr(m.value.num[1])
                  [] OTHER -> m.value.str)

(***************************************************************************)
(* pto_line objects and the classes derived from it.                       *)
(* members = None is members_is_None = TRUE (members is then <<>>).        *)
(* attrs holds the attributes setattr() added to the object, by name; an   *)
(* attribute of that name set by the constructor is shadowed by it.        *)
(* fault is TRUE when the constructor raised SyntaxError.                  *)
(***************************************************************************)
NoAttrs == [n \in {} |-> 0]

Line(cls, sourcecode, lineno, header, isNone, members) ==
    [cls |-> cls, sourcecode |-> sourcecode, lineno |-> lineno,
     header |-> header, members_is_None |-> isNone, members |-> members,
     attrs |-> NoAttrs,
     fault |-> \E k \in 1..Len(members) : members[k].datatype = ""]

\* pto_line ( line , lineno , header , scan )
pto_line(line, lineno, header, scan) ==
    IF ~scan
    THEN Line("pto_line", line, lineno, header, TRUE, <<>>)
    ELSE With(FindIter("pto_member_re", line, Len(header) + 1), LAMBDA ms :
             Line("pto_line", line, lineno, header, FALSE,
                  [k \in 1..Len(ms) |-> PtoMemberOf(ms[k])]))

\* hugin_extension_line ( line , lineno , header )
hugin_extension_line(line, lineno, header) ==
    With(FindIter("hugin_key_value_re", line, Len(header) + 1), LAMBDA ms :
        Line("hugin_extension_line", line, lineno, header, FALSE,
             [k \in 1..Len(ms) |->
                 ExtensionMemberOf(ms[k].member_qualifier, <<"=">>, ms[k])]))

\* imgfile_extension_line ( line , lineno , header )
imgfile_extension_line(line, lineno, header) ==
    With(FindIter("imgfile_data_re", line, Len(header) + 1), LAMBDA ms :
        Line("imgfile_extension_line", line, lineno, header, FALSE,
             [k \in 1..Len(ms) |-> ExtensionMemberOf(<<>>, <<>>, ms[k])]))

\* the characters the model's texts use, in ASCII order: ord() for comparisons
Ascii ==
    <<"\t", "\n", "\f", "\r", " ", "\"", "#", "*", "+", ",", "-", ".",
      "0", "1", "2", "3", "4", "5", "6", "7", "8", "9", "=",
      "A","B","C","D","E","F","G","H","I","J","K","L","M",
      "N","O","P","Q","R","S","T","U","V","W","X","Y","Z", "\\", "_",
      "a","b","c","d","e","f","g","h","i","j","k","l","m",
      "n","o","p","q","r","s","t","u","v","w","x","y","z">>

Ord(c) == CHOOSE k \in 1..Len(Ascii) : Ascii[k] = c

\* a < b on Python strings
StrLess(a, b) ==
    LET n    == IF Len(a) < Len(b) THEN Len(a) ELSE Len(b)
        diff == {k \in 1..n : a[k] # b[k]}
    IN  IF diff = {} THEN Len(a) < Len(b)
        ELSE LET k == CHOOSE k \in diff : \A j \in diff : k <= j
             IN  Ord(a[k]) < Ord(b[k])

\* line.strip()
Strip(s) ==
    LET keep == {k \in 1..Len(s) : s[k] \notin Whitespace}
    IN  IF keep = {} THEN <<>>
        ELSE SubSeq(s, CHOOSE k \in keep : \A j \in keep : k <= j,
                       CHOOSE k \in keep : \A j \in keep : k >= j)

hugin_prefix == <<"#", "-", "h", "u", "g", "i", "n">>

hugin_option_prefix == <<"#", "h", "u", "g", "i", "n", "_">>

imgfile_prefix == <<"#", "-", "i", "m", "g", "f", "i", "l", "e">>

\* hugin_extension_re.match ( line )
hugin_extension_re(line) == StartsWith(line, hugin_prefix)

\* hugin_option_re.match ( line ): the end of the match, 0 when none
hugin_option_re(line) ==
    IF StartsWith(line, hugin_option_prefix)
    THEN WordEnd(line, Len(hugin_option_prefix) + 1)
    ELSE 0

\* imgfile_extension_re.match ( line )
imgfile_extension_re(line) == StartsWith(line, imgfile_prefix)

\* a variant of hugin_option_line without line = line.strip ( ): the header
\* is compared with the line as read, and the text runs to its end
hugin_option_line_unstripped(line, lineno) ==
    With(Slice(line, 1, hugin_option_re(line)), LAMBDA header :
        Line("hugin_option_line", line, lineno, header, FALSE,
             IF StrLess(header, line)
             THEN <<Member(<<>>, <<>>, From(line, Len(header) + 2), "w",
                           StrValue(From(line, Len(header) + 2)))>>
             ELSE <<>>))

\* hugin_option_line ( line , lineno )
hugin_option_line(line, lineno) ==
    With(Slice(line, 1, hugin_option_re(line)), LAMBDA header :
    With(Strip(line), LAMBDA stripped :
        Line("hugin_option_line", line, lineno, header, FALSE,
             IF StrLess(header, stripped)
             THEN <<Member(<<>>, <<>>, From(stripped, Len(header) + 2), "w",
                           StrValue(From(stripped, Len(header) + 2)))>>
             ELSE <<>>)))

(***************************************************************************)
(* The scan loop of pto_scan.__init__                                      *)
(***************************************************************************)
\* a variant of the pass below that does not read scan_extensions: a
\* comment is looked into whatever the flag says
ScanLineAlwaysExtensions(line, lineno, accepted, extensions) ==
    IF line[1] \in accepted
    THEN pto_line(line, lineno, <<line[1]>>, TRUE)
    ELSE IF line[1] = "#"
    THEN IF hugin_extension_re(line)
         THEN hugin_extension_line(line, lineno, hugin_prefix)
         ELSE IF hugin_option_re(line) > 0
         THEN hugin_option_line(line, lineno)
         ELSE IF imgfile_extension_re(line)
         THEN imgfile_extension_line(line, lineno, imgfile_prefix)
         ELSE pto_line(line, lineno, <<"#">>, FALSE)
    ELSE IF line[1] = "*"
    THEN pto_line(line, lineno, <<"*">>, FALSE)
    ELSE pto_line(line, lineno, <<>>, FALSE)

\* one pass of the first loop: the pto_line object made for `line`
ScanLine(line, lineno, accepted, extensions) ==
    IF line[1] \in accepted
    THEN pto_line(line, lineno, <<line[1]>>, TRUE)
    ELSE IF line[1] = "#"
    THEN IF extensions
         THEN IF hugin_extension_re(line)
              THEN hugin_extension_line(line, lineno, hugin_prefix)
              ELSE IF hugin_option_re(line) > 0
              THEN hugin_option_line(line, lineno)
              ELSE IF imgfile_extension_re(line)
              THEN imgfile_extension_line(line, lineno, imgfile_prefix)
              ELSE pto_line(line, lineno, <<"#">>, FALSE)
         ELSE pto_line(line, lineno, <<"#">>, FALSE)
    ELSE IF line[1] = "*"
    THEN pto_line(line, lineno, <<"*">>, FALSE)
    ELSE pto_line(line, lineno, <<>>, FALSE)

\* a variant of the test below for a loop without the break: the first loop
\* goes on after a line that starts with '*'
NeverBreak(line, accepted) == FALSE

\* whether the pass for `line` takes the branch that ends the first loop
IsBreak(line, accepted) ==
    /\ line[1] \notin accepted
    /\ line[1] # "#"
    /\ line[1] = "*"

RECURSIVE TrailingLoop(_, _, _)
\* the second loop: every line left is recorded with header '' and no scan
TrailingLoop(lines, k, seq) ==
    IF k > Len(lines) THEN seq
    ELSE TrailingLoop(lines, k + 1,
                      Append(seq, pto_line(lines[k], k - 1, <<>>, FALSE)))

RECURSIVE MainLoop(_, _, _, _, _)
\* the first loop, from the k-th line on (lineno is k - 1)
MainLoop(lines, k, seq, accepted, extensions) ==
    IF k > Len(lines) THEN seq
    ELSE IF IsBreak(lines[k], accepted)
    THEN TrailingLoop(lines, k + 1,
             Append(seq, ScanLine(lines[k], k - 1, accepted, extensions)))
    ELSE MainLoop(lines, k + 1,
             Append(seq, ScanLine(lines[k], k - 1, accepted, extensions)),
             accepted, extensions)

(***************************************************************************)
(* make_member_access                                                      *)
(***************************************************************************)
header_name == <<"h", "e", "a", "d", "e", "r">>

members_name == <<"m", "e", "m", "b", "e", "r", "s">>

sourcecode_name == <<"s", "o", "u", "r", "c", "e", "c", "o", "d", "e">>

lineno_name == <<"l", "i", "n", "e", "n", "o">>

\* whether setattr() has replaced the attribute `name` of the line by a
\* pto_member object
Shadowed(line, name) == name \in DOMAIN line.attrs

\* the truth value of line.members
MembersTruthy(line) ==
    \/ Shadowed(line, members_name)
    \/ ~line.members_is_None /\ line.members # <<>>

\* for m in line.members : setattr ( line , m.type , m )
SetMemberAttrs(line) ==
    LET ms    == line.members
        names == {ms[k].type : k \in 1..Len(ms)}
        last(n) == CHOOSE k \in 1..Len(ms) :
                       /\ ms[k].type = n
                       /\ \A j \in (k + 1)..Len(ms) : ms[j].type # n
    IN  [line EXCEPT !.attrs =
            [n \in names \cup DOMAIN line.attrs |->
                IF n \in names THEN ms[last(n)] ELSE line.attrs[n]]]

\* if not hasattr ( self , line.header ) : setattr ( self , line.header , [] )
\* The index maps a header to the list stored under that attribute of the
\* scan; a list holds references to lines, modelled as their positions in
\* sequential.
StartList(idx, header) ==
    IF header \in DOMAIN idx THEN idx ELSE (header :> <<>>) @@ idx

RECURSIVE MemberAccessLoop(_, _, _)
RECURSIVE AppendLine(_, _, _, _)
\* the last statement of the loop body for the k-th line, whose attributes
\* have been set: getattr ( self , line.header ) . append ( line ).  getattr
\* raises TypeError when line.header has just been replaced by a pto_member
\* (a key named header): the loop stops there, with what it had done.
AppendLine(seq, idx, k, header) ==
    IF Shadowed(seq[k], header_name)
    THEN [sequential |-> seq, index |-> idx, fault |-> TRUE]
    ELSE MemberAccessLoop(seq, [idx EXCEPT ![header] = Append(@, k)], k + 1)

\* the loop of make_member_access from the k-th line on
MemberAccessLoop(seq, idx, k) ==
    IF k > Len(seq) THEN [sequential |-> seq, index |-> idx, fault |-> FALSE]
    ELSE IF MembersTruthy(seq[k])
    THEN AppendLine([seq EXCEPT ![k] = SetMemberAttrs(seq[k])],
                    StartList(idx, seq[k].header), k, seq[k].header)
    ELSE MemberAccessLoop(seq, StartList(idx, seq[k].header), k + 1)

(***************************************************************************)
(* get_lines_like, select, pto                                             *)
(***************************************************************************)
RECURSIVE Positions(_, _, _)
\* the positions k..Len(seq) of the lines that satisfy keep, in list order
Positions(seq, keep, k) ==
    IF k > Len(seq) THEN <<>>
    ELSE (IF k \in keep THEN <<k>> ELSE <<>>) \o Positions(seq, keep, k + 1)

\* a variant of get_lines_like that takes a line when its header starts with
\* the filter ( l.header.startswith ( header_filter ) )
lines_with_prefix(seq, header_filter) ==
    Positions(seq, {k \in 1..Len(seq) :
                       /\ ~Shadowed(seq[k], header_name)
                       /\ StartsWith(seq[k].header, header_filter)}, 1)

\* [ l for l in self.sequential if l.header == header_filter ]
\* (a header replaced by a pto_member object equals no string)
get_lines_like(seq, header_filter) ==
    Positions(seq, {k \in 1..Len(seq) :
                       /\ ~Shadowed(seq[k], header_name)
                       /\ seq[k].header = header_filter}, 1)

RECURSIVE select_from(_, _, _)
\* the loop of pto_line.select from the k-th member on: the first member
\* whose type is member_tag, as a list of one element; the empty list stands
\* for None
select_from(ms, member_tag, k) ==
    IF k > Len(ms) THEN <<>>
    ELSE IF ms[k].type = member_tag THEN <<ms[k]>>
    ELSE select_from(ms, member_tag, k + 1)

\* whether 'for m in self.members' raises TypeError: members is None, or a
\* pto_member object has replaced it
select_fault(line) ==
    line.members_is_None \/ Shadowed(line, members_name)

\* line.select ( member_tag ), when it does not raise
select(line, member_tag) == select_from(line.members, member_tag, 1)

\* the rest of extract for what select returned: m.value when m is true
value_of(found) == [j \in 1..Len(found) |-> found[j].value]

\* line.extract ( member_tag ), when it does not raise
extract(line, member_tag) == value_of(select(line, member_tag))

\* pto_line.__str__ (reached with a true line.members only)
LineStr(line) ==
    LET ms == line.members
        tail[k \in 0..Len(ms)] ==
            IF k = 0 THEN <<>> ELSE tail[k - 1] \o <<" ">> \o MemberStr(ms[k])
    IN  line.header \o tail[Len(ms)]

\* pto_line.pto: what it writes, and whether it raises (TypeError: a member
\* object where a list or a string is needed)
LinePto(line, with_aux) ==
    IF MembersTruthy(line)
    THEN IF Shadowed(line, members_name) \/ Shadowed(line, header_name)
         THEN [fault |-> TRUE, text |-> <<>>]
         ELSE [fault |-> FALSE, text |-> LineStr(line) \o <<"\n">>]
    ELSE IF with_aux
    THEN IF Shadowed(line, sourcecode_name)
         THEN [fault |-> TRUE, text |-> <<>>]
         ELSE [fault |-> FALSE, text |-> line.sourcecode]
    ELSE [fault |-> FALSE, text |-> <<>>]

\* the rest of pto_scan.pto after the write r of one line
RECURSIVE PtoLoop(_, _, _, _)
AfterWrite(seq, with_aux, k, written, r) ==
    IF r.fault THEN [fault |-> TRUE, text |-> written]
    ELSE PtoLoop(seq, with_aux, k + 1, written \o r.text)

\* pto_scan.pto from the k-th line on; written is what target has received
PtoLoop(seq, with_aux, k, written) ==
    IF k > Len(seq) THEN [fault |-> FALSE, text |-> written]
    ELSE AfterWrite(seq, with_aux, k, written, LinePto(seq[k], with_aux))

(***************************************************************************)
(* State                                                                   *)
(***************************************************************************)
VARIABLES
    pto_data,           \* the lines readlines() returns for the input file
    args,               \* the constructor call: class and arguments
    pc,                 \* "start", "scanned" (an object exists) or "failed"
    sequential,         \* self.sequential
    has_member_access,  \* hasattr ( self , '_member_access' )
    index,              \* the header attributes make_member_access added
    fault,              \* the exception the last operation raised, "" if none
    result,             \* the last operation called and what it returned
    env,                \* what the caller passes and what the file system holds
    handle              \* the file object: "none", "open" or "closed"

vars ==
    <<pto_data, args, pc, sequential, has_member_access, index, fault, result,
      env, handle>>

(***************************************************************************)
(* Inputs.  MaxLines bounds the lines of a file built from SampleLines;    *)
(* MaxFragments bounds the fragments after the head of a one-line file.    *)
(***************************************************************************)
MaxLines == 2

MaxFragments == 3

SampleLines ==
    {<<"i", " ", "w", "1", "\n">>,
     <<"i", " ", "w", "1", " ", "w", "2", "\n">>,
     <<"i", "\n">>,
     <<"q", " ", "w", "1", "\n">>,
     <<"#", "c", "\n">>,
     <<"#", "-", "h", "u", "g", "i", "n", " ", "k", "=", "1", "\n">>,
     <<"#", "-", "h", "u", "g", "i", "n", " ", "h", "e", "a", "d", "e", "r", "=", "1", "\n">>,
     <<"#", "-", "h", "u", "g", "i", "n", " ", "m", "e", "m", "b", "e", "r", "s", "=", "1", "\n">>,
     <<"#", "h", "u", "g", "i", "n", "_", "a", " ", "b", "\n">>,
     <<"#", "h", "u", "g", "i", "n", "_", "a", "\n">>,
     <<"#", "-", "i", "m", "g", "f", "i", "l", "e", " ", "1", "\n">>,
     <<"*", "\n">>,
     <<"\n">>}

\* a last line that has no terminator
UnterminatedLines == {<<"i", " ", "w", "1">>}

\* readlines() ends every line but the last with its terminator
SampleFiles ==
    {f \in UNION {[1..n -> SampleLines \cup UnterminatedLines] : n \in 1..MaxLines} :
        \A k \in 1..(Len(f) - 1) : f[k][Len(f[k])] = "\n"}

Fragments ==
    {<<" ", "w">>,
     <<" ">>,
     <<"1", "2">>,
     <<"1", ".", "5">>,
     <<"=", "3">>,
     <<"1", "0", ",", "2", "0", ",", "3", "0", ",", "4", "0">>,
     <<"\"", "a", ",", "b", "\"">>,
     <<"+">>,
     <<"\"">>,
     <<"\"", "\\", "\"">>}

Heads ==
    {<<"i">>,
     <<"#">>,
     <<"#", "h", "u", "g", "i", "n", "_", "a">>}

RECURSIVE Bodies(_)
\* the texts made of at most n fragments
Bodies(n) ==
    IF n = 0 THEN {<<>>}
    ELSE Bodies(n - 1) \cup {b \o f : b \in Bodies(n - 1), f \in Fragments}

GrammarFiles ==
    {<<h \o b \o t>> : h \in Heads, b \in Bodies(MaxFragments),
                      t \in {<<"\n">>, <<>>}}

\* the calls of pto_scan ( pto_data , accepted_line_headers , scan_extensions ,
\* member_access ) and of strict_pto_scan ( filename , accept_extensions )
Call(cls, accepted, extensions, access) ==
    [cls |-> cls, accepted_line_headers |-> accepted,
     scan_extensions |-> extensions, member_access |-> access]

DefaultCall == Call("pto_scan", letters, TRUE, TRUE)

Calls ==
    {Call("pto_scan", a, e, m) :
        a \in {letters, standard_headers}, e \in BOOLEAN, m \in BOOLEAN}
    \cup {Call("strict_pto_scan", standard_headers, e, TRUE) : e \in BOOLEAN}

\* the member_tag arguments of extract
QueryTags ==
    {<<"w">>}

QueryHeaders ==
    {<<"i">>, <<"q">>, <<"#">>, <<>>}

\* the names of the files of PTO_DIR, in the order os.walk lists them
ExampleFilelist ==
    <<<<"a", ".", "p", "t", "o">>,
      <<"b", ".", "P", "T", "O">>,
      <<"r", "e", "a", "d", "m", "e", ".", "t", "x", "t">>>>

\* kind is what pto_data is: "str" (a file name), "file" (an open file),
\* "duck" (an object with readlines and no name) or "other"; exists is
\* whether open() finds the file, readable whether readlines() succeeds;
\* filename is the argument of load.GET; walks is whether os.walk ( PTO_DIR )
\* yields anything, filelist the file names of its first item.
Env(kind, exists, readable, filename, walks, filelist) ==
    [kind |-> kind, exists |-> exists, readable |-> readable,
     filename |-> filename, walks |-> walks, filelist |-> filelist]

DefaultEnv == Env("file", TRUE, TRUE, ExampleFilelist[1], TRUE, ExampleFilelist)

\* records is the list load.GET dumps, files the list list.GET dumps; line
\* and qualifier are the receiver and the argument of extract, found what
\* select returned and value what extract returned (a list of at most one
\* element: the empty list stands for None)
NoResult ==
    [op |-> "", header |-> <<>>, with_aux |-> FALSE, again |-> FALSE,
     lines |-> <<>>, text |-> <<>>, records |-> <<>>, files |-> <<>>,
     line |-> 0, qualifier |-> <<>>, found |-> <<>>, value |-> <<>>]

Start ==
    /\ pc = "start"
    /\ sequential = <<>>
    /\ has_member_access = FALSE
    /\ index = NoAttrs
    /\ fault = ""
    /\ result = NoResult
    /\ handle = "none"

Init ==
    /\ pto_data \in SampleFiles
    /\ args \in Calls
    /\ env = DefaultEnv
    /\ Start

InitGrammar ==
    /\ pto_data \in GrammarFiles
    /\ args \in {DefaultCall, Call("strict_pto_scan", standard_headers, TRUE, TRUE)}
    /\ env = DefaultEnv
    /\ Start

AppLines ==
    {<<"i", " ", "n", "\"", "a", "\"", " ", "y", "1", " ", "p", "2", " ",
       "r", "3", " ", "v", "4", "\n">>,
     <<"i", " ", "n", "\"", "a", "\"", " ", "y", "1", "\n">>,
     <<"#", "-", "h", "u", "g", "i", "n", " ", "l", "i", "n", "e", "n", "o", "=", "7", "\n">>,
     <<"#", "c", "\n">>,
     <<"*", "\n">>}

AppFiles == UNION {[1..n -> AppLines] : n \in 1..MaxLines}

Filenames ==
    {ExampleFilelist[1],
     <<".", "a", ".", "p", "t", "o">>,
     <<".", ".", "/", "a", ".", "p", "t", "o">>}

Filelists ==
    {ExampleFilelist,
     <<>>,
     <<<<".", "p", "t", "o">>,
       <<"x", ".", "d", ".", "P", "t", "o">>,
       <<"p", "t", "o">>>>}

\* the default environment changed in one respect
Envs ==
    {Env(k, x, r, ExampleFilelist[1], TRUE, ExampleFilelist) :
        k \in {"str", "file", "duck", "other"}, x \in BOOLEAN, r \in BOOLEAN}
    \cup {Env("file", TRUE, TRUE, f, TRUE, ExampleFilelist) : f \in Filenames}
    \cup {Env("file", TRUE, TRUE, ExampleFilelist[1], w, d) :
            w \in BOOLEAN, d \in Filelists}

InitApp ==
    /\ pto_data \in AppFiles
    /\ args \in {DefaultCall, Call("pto_scan", letters, TRUE, FALSE),
                 Call("strict_pto_scan", standard_headers, TRUE, TRUE)}
    /\ env \in Envs
    /\ Start

(***************************************************************************)
(* Operations                                                              *)
(***************************************************************************)
\* the exception the first statements of pto_scan.__init__ raise, "" if none:
\* open ( pto_data , 'r' ), ptofile.name, raise NameError, ptofile.readlines ( )
ReadFault(e) ==
    IF e.kind = "other" THEN "NameError"
    ELSE IF e.kind = "str" /\ ~e.exists THEN "IOError"
    ELSE IF e.kind = "duck" THEN "AttributeError"
    ELSE IF ~e.readable THEN "IOError"
    ELSE ""

\* the file object when these statements are left: there is none when nothing
\* was opened or passed, ptofile.close ( ) is reached when none of them raised
HandleAfterRead(e) ==
    IF e.kind = "other" \/ (e.kind = "str" /\ ~e.exists) THEN "none"
    ELSE IF ReadFault(e) # "" THEN "open"
    ELSE "closed"

\* pto_scan.__init__: reading the lines, the two loops, then
\* make_member_access when asked.  An exception leaves the caller without an
\* object.
Construct ==
    /\ pc = "start"
    /\ args.cls = "pto_scan"
    /\ handle' = HandleAfterRead(env)
    /\ \E seq \in {MainLoop(pto_data, 1, <<>>, args.accepted_line_headers,
                            args.scan_extensions)} :
       \E r \in {MemberAccessLoop(seq, NoAttrs, 1)} :
          IF ReadFault(env) # ""
          THEN /\ pc' = "failed"
               /\ fault' = ReadFault(env)
               /\ UNCHANGED <<sequential, has_member_access, index>>
          ELSE IF \E k \in 1..Len(seq) : seq[k].fault
          THEN /\ pc' = "failed"
               /\ fault' = "SyntaxError"
               /\ UNCHANGED <<sequential, has_member_access, index>>
          ELSE IF args.member_access /\ r.fault
          THEN /\ pc' = "failed"
               /\ fault' = "TypeError"
               /\ UNCHANGED <<sequential, has_member_access, index>>
          ELSE IF args.member_access
          THEN /\ pc' = "scanned"
               /\ sequential' = r.sequential
               /\ index' = r.index
               /\ has_member_access' = TRUE
               /\ fault' = ""
          ELSE /\ pc' = "scanned"
               /\ sequential' = seq
               /\ UNCHANGED <<has_member_access, index, fault>>
    /\ result' = [NoResult EXCEPT !.op = "pto_scan"]
    /\ UNCHANGED <<pto_data, args, env>>

\* strict_pto_scan.__init__: its one statement names sccept_extensions, which
\* is bound nowhere, so evaluating the arguments raises NameError before
\* pto_scan.__init__ runs.
StrictConstruct ==
    /\ pc = "start"
    /\ args.cls = "strict_pto_scan"
    /\ pc' = "failed"
    /\ fault' = "NameError"
    /\ result' = [NoResult EXCEPT !.op = "strict_pto_scan"]
    /\ UNCHANGED <<pto_data, args, sequential, has_member_access, index,
                   env, handle>>

\* a variant of the guard below for make_member_access without its guard:
\* every call runs the loop
NeverBuilt == FALSE

\* hasattr ( self , '_member_access' ): the guard of make_member_access
AlreadyBuilt == has_member_access

\* scan.make_member_access ( )
MakeMemberAccess ==
    /\ pc = "scanned"
    /\ IF AlreadyBuilt
       THEN /\ fault' = ""
            /\ UNCHANGED <<sequential, has_member_access, index>>
       ELSE \E r \in {MemberAccessLoop(sequential, index, 1)} :
                /\ has_member_access' = TRUE
                /\ sequential' = r.sequential
                /\ index' = r.index
                /\ fault' = IF r.fault THEN "TypeError" ELSE ""
    /\ result' = [NoResult EXCEPT !.op = "make_member_access",
                                  !.again = has_member_access]
    /\ UNCHANGED <<pto_data, args, pc, env, handle>>

\* scan.get_lines_like ( header_filter )
GetLinesLike ==
    /\ pc = "scanned"
    /\ \E h \in QueryHeaders :
          result' = [NoResult EXCEPT !.op = "get_lines_like", !.header = h,
                                     !.lines = get_lines_like(sequential, h)]
    /\ fault' = ""
    /\ UNCHANGED <<pto_data, args, pc, sequential, has_member_access, index,
                   env, handle>>

\* scan.pto ( target , with_aux ): text is what target received
Pto ==
    /\ pc = "scanned"
    /\ \E with_aux \in BOOLEAN :
          \E r \in {PtoLoop(sequential, with_aux, 1, <<>>)} :
              /\ result' = [NoResult EXCEPT !.op = "pto", !.with_aux = with_aux,
                                            !.text = r.text]
              /\ fault' = IF r.fault THEN "TypeError" ELSE ""
    /\ UNCHANGED <<pto_data, args, pc, sequential, has_member_access, index,
                   env, handle>>

\* scan.sequential [ k - 1 ] . extract ( member_tag ), which calls select
Extract ==
    /\ pc = "scanned"
    /\ \E k \in 1..Len(sequential) : \E member_tag \in QueryTags :
          IF select_fault(sequential[k])
          THEN /\ fault' = "TypeError"
               /\ result' = [NoResult EXCEPT !.op = "extract", !.line = k,
                                             !.qualifier = member_tag]
          ELSE /\ fault' = ""
               /\ result' = [NoResult EXCEPT
                                !.op = "extract", !.line = k,
                                !.qualifier = member_tag,
                                !.found = select(sequential[k], member_tag),
                                !.value = extract(sequential[k], member_tag)]
    /\ UNCHANGED <<pto_data, args, pc, sequential, has_member_access, index,
                   env, handle>>

\* '/' in filename or filename.startswith ( '.' )
IllegalFilename(filename) ==
    \/ \E k \in 1..Len(filename) : filename[k] = "/"
    \/ At(filename, 1) = "."

\* the attributes load.GET reads from a line of pto.i, in the order of the
\* keys name, yaw, pitch, roll, view
ProjectedMembers == <<<<"n">>, <<"y">>, <<"p">>, <<"r">>, <<"v">>>>

\* the dictionary load.GET appends for one line
Projection(line) ==
    [name  |-> line.attrs[<<"n">>].value,
     yaw   |-> line.attrs[<<"y">>].value,
     pitch |-> line.attrs[<<"p">>].value,
     roll  |-> line.attrs[<<"r">>].value,
     view  |-> line.attrs[<<"v">>].value]

\* whether the loop of load.GET raises AttributeError: pto has no attribute i,
\* or a line of pto.i lacks one of the five attributes
ProjectionFault(seq, idx) ==
    \/ <<"i">> \notin DOMAIN idx
    \/ \E j \in 1..Len(idx[<<"i">>]) : \E q \in 1..Len(ProjectedMembers) :
           ProjectedMembers[q] \notin DOMAIN seq[idx[<<"i">>][j]].attrs

\* pto_data of load.GET: the dictionaries of the lines of pto.i
Projections(seq, idx) ==
    [j \in 1..Len(idx[<<"i">>]) |-> Projection(seq[idx[<<"i">>][j]])]

\* the exception load.GET raises for the scan seq, r of the file, "" if none:
\* open in load_pto, then pto_scan.__init__ on the open file, then the loop
LoadFault(e, seq, r) ==
    IF ~e.exists THEN "IOError"
    ELSE IF ReadFault(e) # "" THEN ReadFault(e)
    ELSE IF \E k \in 1..Len(seq) : seq[k].fault THEN "SyntaxError"
    ELSE IF r.fault THEN "TypeError"
    ELSE IF ProjectionFault(r.sequential, r.index) THEN "AttributeError"
    ELSE ""

\* load.GET ( filename ) of app.py with load_pto: the scan it builds is the
\* default call pto_scan ( file ); sequential and index hold the scan the
\* handler had when it returned or raised in its loop.
LoadGet ==
    /\ pc = "start"
    /\ args = DefaultCall
    /\ pc' = "served"
    /\ IF IllegalFilename(env.filename)
       THEN /\ fault' = "ValueError"
            /\ result' = [NoResult EXCEPT !.op = "load"]
            /\ UNCHANGED <<sequential, has_member_access, index, handle>>
       ELSE \E e \in {[env EXCEPT !.kind = "file"]} :
            \E seq \in {MainLoop(pto_data, 1, <<>>, letters, TRUE)} :
            \E r \in {MemberAccessLoop(seq, NoAttrs, 1)} :
            \E f \in {LoadFault(e, seq, r)} :
               /\ fault' = f
               /\ handle' = IF e.exists THEN HandleAfterRead(e) ELSE "none"
               /\ IF f \in {"", "AttributeError"}
                  THEN /\ sequential' = r.sequential
                       /\ index' = r.index
                       /\ has_member_access' = TRUE
                  ELSE UNCHANGED <<sequential, has_member_access, index>>
               /\ result' = [NoResult EXCEPT !.op = "load", !.records =
                                 IF f = "" THEN Projections(r.sequential, r.index)
                                 ELSE <<>>]
    /\ UNCHANGED <<pto_data, args, env>>

LowerCase ==
    <<"a","b","c","d","e","f","g","h","i","j","k","l","m",
      "n","o","p","q","r","s","t","u","v","w","x","y","z">>

UpperCase ==
    <<"A","B","C","D","E","F","G","H","I","J","K","L","M",
      "N","O","P","Q","R","S","T","U","V","W","X","Y","Z">>

\* a variant of lower that leaves the case of every letter as it is
same_case(s) == s

\* str.lower ( )
lower(s) ==
    [k \in 1..Len(s) |->
        IF s[k] \in Upper
        THEN LowerCase[CHOOSE j \in 1..26 : UpperCase[j] = s[k]]
        ELSE s[k]]

\* p.rfind ( c ), as a position: 0 when c is not in p
rfind(p, c) ==
    IF \E k \in 1..Len(p) : p[k] = c
    THEN CHOOSE k \in 1..Len(p) :
             p[k] = c /\ \A j \in (k + 1)..Len(p) : p[j] # c
    ELSE 0

\* os.path.splitext ( p ) [ 1 ] when the last dot of p is at position dot: the
\* text from that dot on, '' when only dots precede it (a file name holds no
\* separator)
ExtensionFrom(p, dot) ==
    IF dot > 0 /\ \E k \in 1..(dot - 1) : p[k] # "."
    THEN From(p, dot)
    ELSE <<>>

\* os.path.splitext ( file ) [ 1 ]
splitext_ext(p) == ExtensionFrom(p, rfind(p, "."))

RECURSIVE ptolist(_, _)
\* [ file for file in filelist
\*   if os.path.splitext ( file ) [ 1 ] . lower ( ) == '.pto' ], from the
\* k-th file on
ptolist(filelist, k) ==
    IF k > Len(filelist) THEN <<>>
    ELSE (IF lower(splitext_ext(filelist[k])) = <<".", "p", "t", "o">>
          THEN <<filelist[k]>> ELSE <<>>) \o ptolist(filelist, k + 1)

\* list.GET ( ) of app.py: os.walk ( PTO_DIR ) . next ( ) raises StopIteration
\* when the walk yields nothing
ListGet ==
    /\ pc = "start"
    /\ pc' = "served"
    /\ IF env.walks
       THEN /\ fault' = ""
            /\ result' = [NoResult EXCEPT !.op = "list",
                                          !.files = ptolist(env.filelist, 1)]
       ELSE /\ fault' = "StopIteration"
            /\ result' = [NoResult EXCEPT !.op = "list"]
    /\ UNCHANGED <<pto_data, args, sequential, has_member_access, index,
                   env, handle>>

Next ==
    \/ Construct
    \/ StrictConstruct
    \/ MakeMemberAccess
    \/ GetLinesLike
    \/ Pto
    \/ Extract
    \/ LoadGet
    \/ ListGet

Spec == Init /\ [][Next]_vars

SpecGrammar == InitGrammar /\ [][Next]_vars

SpecApp == InitApp /\ [][Next]_vars

(***************************************************************************)
(* Properties.  The operators of this part state what is expected of the   *)
(* program; they read the state and the input text, not the scan loop.     *)
(***************************************************************************)
RECURSIVE JoinedFrom(_, _)
\* the texts ss[k], ss[k+1], ... written one after the other
JoinedFrom(ss, k) == IF k > Len(ss) THEN <<>> ELSE ss[k] \o JoinedFrom(ss, k + 1)

Joined(ss) == JoinedFrom(ss, 1)

\* a line with first character '*' comes before the k-th line of the input
AfterSentinel(lines, k) == \E j \in 1..(k - 1) : lines[j][1] = "*"

\* the line is recorded opaque under the given header: members = None
IsOpaque(line, header) ==
    /\ line.header = header
    /\ line.members_is_None
    /\ line.members = <<>>

\* a generic data line: made by the member scan of pto_line
IsGeneric(line) == line.cls = "pto_line" /\ ~line.members_is_None

\* every line is a generic data line or a plain comment
OnlyGenericAndComments ==
    \A k \in 1..Len(sequential) :
        \/ IsGeneric(sequential[k])
        \/ IsOpaque(sequential[k], <<"#">>)

\* t is the way str() spells a natural number: digits, no leading zero
CanonicalNat(t) ==
    /\ Len(t) > 0
    /\ \A k \in 1..Len(t) : t[k] \in Digits
    /\ Len(t) > 1 => t[1] # "0"

\* t is the way str() spells an integer
CanonicalInt(t) ==
    \/ CanonicalNat(t)
    \/ At(t, 1) = "-" /\ CanonicalNat(From(t, 2)) /\ From(t, 2) # <<"0">>

\* u = digits . digits is the way str() spells a float magnitude: at most 12
\* digits, no leading zero before the point, no trailing zero after it (a
\* lone 0 apart), and not so small that str() turns to exponent notation
CanonicalMagnitude(u) ==
    \E d \in 2..(Len(u) - 1) :
        /\ u[d] = "."
        /\ CanonicalNat(Slice(u, 1, d))
        /\ \A k \in (d + 1)..Len(u) : u[k] \in Digits
        /\ Len(u) > d + 1 => u[Len(u)] # "0"
        /\ Len(u) - 1 <= 12
        /\ ~(Slice(u, 1, d) = <<"0">> /\ Len(u) >= d + 4
               /\ \A k \in (d + 1)..(d + 4) : u[k] = "0")

CanonicalFloat(t) ==
    CanonicalMagnitude(IF At(t, 1) = "-" THEN From(t, 2) ELSE t)

\* t is four canonical integers with commas between them
CanonicalRectangle(t) ==
    \E a, b, c \in 2..(Len(t) - 1) :
        /\ a < b /\ b < c
        /\ t[a] = "," /\ t[b] = "," /\ t[c] = ","
        /\ CanonicalInt(Slice(t, 1, a)) /\ CanonicalInt(Slice(t, a + 1, b))
        /\ CanonicalInt(Slice(t, b + 1, c)) /\ CanonicalInt(From(t, c + 1))

\* the text of the member is the canonical spelling of a value of its type
CanonicalText(m) ==
    CASE m.datatype = "f" -> CanonicalFloat(m.text)
      [] m.datatype = "r" -> CanonicalRectangle(m.text)
      [] m.datatype = "i" -> CanonicalInt(m.text)
      [] m.datatype = "b" -> At(m.text, 1) = "=" /\ CanonicalNat(From(m.text, 2))
      [] OTHER -> TRUE

\* the source of the line is its header, then each member as one space, the
\* qualifier and the canonical text of the value, then a newline
CanonicalLine(line) ==
    /\ line.sourcecode =
          line.header
             \o Joined([j \in 1..Len(line.members) |->
                           <<" ">> \o line.members[j].type \o line.members[j].text])
             \o <<"\n">>
    /\ \A j \in 1..Len(line.members) : CanonicalText(line.members[j])

(***************************************************************************)
(* C1: round trip                                                          *)
(***************************************************************************)
\* C1 (as stated): whenever every line of the document is a generic data
\* line or a comment, pto with with_aux = True writes exactly the input.
C1_RoundTrip ==
    (result.op = "pto" /\ result.with_aux /\ OnlyGenericAndComments)
        => result.text = Joined(pto_data)

\* C1 (amended): whenever every line of the document is a generic data line
\* or a comment, and every generic line that has members is canonical (one
\* space before each member, nothing between or after the members but the
\* newline, each value in the spelling str() gives it), pto with
\* with_aux = True writes exactly the input.
C1_RoundTripCanonical ==
    (/\ result.op = "pto"
     /\ result.with_aux
     /\ OnlyGenericAndComments
     /\ \A k \in 1..Len(sequential) :
           sequential[k].members # <<>> => CanonicalLine(sequential[k]))
        => result.text = Joined(pto_data)

\* a canonical generic line with a float member has been written back
C1_Witness ==
    /\ result.op = "pto"
    /\ result.with_aux
    /\ OnlyGenericAndComments
    /\ \A k \in 1..Len(sequential) :
          sequential[k].members # <<>> => CanonicalLine(sequential[k])
    /\ \E k \in 1..Len(sequential) :
          \E j \in 1..Len(sequential[k].members) :
              sequential[k].members[j].datatype = "f"
    /\ result.text = Joined(pto_data)

(***************************************************************************)
(* C2: the trailing sentinel                                               *)
(***************************************************************************)
\* C2: in a scanned document the first line that starts with '*' is recorded
\* opaque with header "*", and every line after it is recorded opaque with
\* header "", its source text and its place in the order unchanged.
C2_TrailingSentinel ==
    pc = "scanned" =>
        /\ Len(sequential) = Len(pto_data)
        /\ \A k \in 1..Len(pto_data) :
              /\ sequential[k].sourcecode = pto_data[k]
              /\ sequential[k].lineno = k - 1
              /\ (pto_data[k][1] = "*" /\ ~AfterSentinel(pto_data, k))
                    => IsOpaque(sequential[k], <<"*">>)
              /\ AfterSentinel(pto_data, k) => IsOpaque(sequential[k], <<>>)

\* a line that starts with an accepted header and has fields follows a sentinel
C2_Witness ==
    /\ pc = "scanned"
    /\ \E k \in 1..Len(pto_data) :
          /\ AfterSentinel(pto_data, k)
          /\ pto_data[k][1] \in args.accepted_line_headers
          /\ Len(pto_data[k]) > 2

(***************************************************************************)
(* C3: grammar precedence                                                  *)
(***************************************************************************)
\* the datatype of the first of the six alternatives, in the order float,
\* rectangle, int, back reference, string, word, that matches at p, and
\* where its match ends
FirstAlternativeAt(s, p) ==
    IF FloatEnd(s, p) > 0 THEN <<"f", FloatEnd(s, p)>>
    ELSE IF RectangleEnd(s, p) > 0 THEN <<"r", RectangleEnd(s, p)>>
    ELSE IF IntegralEnd(s, p) > 0 THEN <<"i", IntegralEnd(s, p)>>
    ELSE IF BackrefEnd(s, p) > 0 THEN <<"b", BackrefEnd(s, p)>>
    ELSE IF StringEnd(s, p) > 0 THEN <<"s", StringEnd(s, p)>>
    ELSE IF WordEnd(s, p) > 0 THEN <<"w", WordEnd(s, p)>>
    ELSE <<"", 0>>

\* the member lies in the source text s: its qualifier ends where its text
\* starts, at a position where the first alternative that matches is the one
\* of its datatype, and the text is what that alternative matches
PlacedByPrecedence(m, s) ==
    \E p \in (2 + Len(m.type))..Len(s) :
        /\ Slice(s, p - Len(m.type), p) = m.type
        /\ Slice(s, p, p + Len(m.text)) = m.text
        /\ FirstAlternativeAt(s, p) = <<m.datatype, p + Len(m.text)>>

\* the values the claim names
ExampleValue(m) ==
    /\ m.text = <<"1", "2">> => m.datatype = "i" /\ m.value = NumValue(<<12>>)
    /\ m.text = <<"1", ".", "5">>
          => m.datatype = "f" /\ m.value = NumValue(<<1, 15, 1>>)
    /\ m.text = <<"=", "3">>
          => m.datatype = "b" /\ m.value = NumValue(<<3>>) /\ m.separator = <<"=">>
    /\ m.text = <<"1", "0", ",", "2", "0", ",", "3", "0", ",", "4", "0">>
          => m.datatype = "r" /\ m.value = NumValue(<<10, 20, 30, 40>>)
    /\ m.text = <<"\"", "a", ",", "b", "\"">>
          => m.datatype = "s" /\ m.value = StrValue(<<"a", ",", "b">>)

\* C3: every member of a generic data line has the datatype of the first of
\* the six ordered alternatives that matches the source text after its
\* qualifier, one datatype only, the values the examples name, and the
\* separator "=" for a back reference and "" otherwise.
C3_GrammarPrecedence ==
    pc = "scanned" =>
        \A k \in 1..Len(sequential) :
            IsGeneric(sequential[k]) =>
                \A j \in 1..Len(sequential[k].members) :
                    /\ sequential[k].members[j].datatype
                          \in {"f", "r", "i", "b", "s", "w"}
                    /\ PlacedByPrecedence(sequential[k].members[j],
                                          sequential[k].sourcecode)
                    /\ ExampleValue(sequential[k].members[j])
                    /\ sequential[k].members[j].separator =
                          IF sequential[k].members[j].datatype = "b"
                          THEN <<"=">> ELSE <<>>

\* a rectangle has been scanned: text that the int alternative matches too
C3_Witness ==
    /\ pc = "scanned"
    /\ \E k \in 1..Len(sequential) :
          /\ IsGeneric(sequential[k])
          /\ \E j \in 1..Len(sequential[k].members) :
                /\ sequential[k].members[j].datatype = "r"
                /\ sequential[k].members[j].value = NumValue(<<10, 20, 30, 40>>)

(***************************************************************************)
(* C4: strict mode                                                         *)
(***************************************************************************)
\* C4: constructing the strict scanner succeeds, and in the document it
\* yields a line is a generic data line only if its first character is one
\* of p, v, i, m, o, z, c, k; a line with another letter first is opaque
\* with header "".
C4_StrictConstructs ==
    (args.cls = "strict_pto_scan" /\ pc # "start") =>
        /\ pc = "scanned"
        /\ \A k \in 1..Len(sequential) :
              /\ IsGeneric(sequential[k])
                    => sequential[k].sourcecode[1] \in standard_headers
              /\ (/\ sequential[k].sourcecode[1] \in letters \ standard_headers
                  /\ ~AfterSentinel(pto_data, k))
                    => IsOpaque(sequential[k], <<>>)

(***************************************************************************)
(* C5: make_member_access is idempotent                                    *)
(***************************************************************************)
\* the field slots of every line
Slots == [k \in 1..Len(sequential) |-> sequential[k].attrs]

\* no line is twice in an entry of the header index
NoDuplicates ==
    \A h \in DOMAIN index :
        \A i, j \in 1..Len(index[h]) : index[h][i] = index[h][j] => i = j

\* C5: once make_member_access has run on a document (called by the
\* constructor or by the user), no later operation, a further call of
\* make_member_access included, changes an entry of the header index or a
\* field slot of a line; and no line is twice in an entry.
C5_Idempotent ==
    /\ [](NoDuplicates)
    /\ [][(pc = "scanned" /\ has_member_access)
            => (index' = index /\ Slots' = Slots /\ has_member_access')]_vars

\* make_member_access has been called on a document whose index was built,
\* and the index has a line in it
C5_Witness ==
    /\ result.op = "make_member_access"
    /\ result.again
    /\ \E h \in DOMAIN index : Len(index[h]) > 0
    /\ \E k \in 1..Len(sequential) : DOMAIN sequential[k].attrs # {}

(***************************************************************************)
(* C6: get_lines_like                                                      *)
(***************************************************************************)
\* the header attribute of the line is the string h
HasHeader(line, h) == ~Shadowed(line, header_name) /\ line.header = h

\* C6: get_lines_like ( h ) returns the lines of the document whose header
\* is h, each once, in the order of the file: the empty list when there is
\* none, and no exception.
C6_LinesWithHeader ==
    result.op = "get_lines_like" =>
        /\ fault = ""
        /\ \A i \in 1..Len(result.lines) :
              /\ result.lines[i] \in 1..Len(sequential)
              /\ HasHeader(sequential[result.lines[i]], result.header)
        /\ \A k \in 1..Len(sequential) :
              HasHeader(sequential[k], result.header)
                 => \E i \in 1..Len(result.lines) : result.lines[i] = k
        /\ \A i, j \in 1..Len(result.lines) :
              i < j => result.lines[i] < result.lines[j]

\* get_lines_like has returned two data lines
C6_Witness ==
    /\ result.op = "get_lines_like"
    /\ result.header = <<"i">>
    /\ Len(result.lines) = 2

(***************************************************************************)
(* C7: the content of the header index                                     *)
(***************************************************************************)
\* C7: after the index is built, the entry of the header of every recognized
\* line of the document is the list of all lines with that header, in the
\* order of the file: what get_lines_like returns for it, lines with an
\* empty members list included.
C7_IndexIsLinesWithHeader ==
    (pc = "scanned" /\ has_member_access /\ fault = "") =>
        \A k \in 1..Len(sequential) :
          ~sequential[k].members_is_None =>
            /\ sequential[k].header \in DOMAIN index
            /\ index[sequential[k].header] =
                  Positions(sequential,
                            {n \in 1..Len(sequential) :
                                sequential[n].header = sequential[k].header}, 1)

(***************************************************************************)
(* C8: which lines pto writes                                              *)
(***************************************************************************)
\* what the claim has pto write for one line
ExpectedRender(line, with_aux) ==
    IF ~line.members_is_None THEN LineStr(line) \o <<"\n">>
    ELSE IF with_aux THEN line.sourcecode
    ELSE <<>>

\* C8: pto writes, for every recognized line (members a list, empty or not),
\* the header and the members re-rendered and a newline, whatever with_aux
\* is; for every opaque line the source text when with_aux is true and
\* nothing when it is false.
C8_RecognizedLinesRerendered ==
    (result.op = "pto" /\ fault = "") =>
        result.text =
            Joined([k \in 1..Len(sequential) |->
                       ExpectedRender(sequential[k], result.with_aux)])

(***************************************************************************)
(* C9: hugin option lines                                                  *)
(***************************************************************************)
\* the line starts with "#hugin_" and a character that is not a space
IsHuginOption(src) == StartsWith(src, hugin_option_prefix) /\ IsNonSpace(At(src, 8))

\* the position of the last character of src that is not a space
LastNonSpace(src) ==
    CHOOSE p \in 1..Len(src) :
        /\ IsNonSpace(src[p])
        /\ \A k \in (p + 1)..Len(src) : ~IsNonSpace(src[k])

\* where the first token of src ends: the first position that holds a space,
\* or the position after the last
TokenEnd(src) ==
    CHOOSE e \in 2..(Len(src) + 1) :
        /\ \A k \in 1..(e - 1) : IsNonSpace(src[k])
        /\ ~IsNonSpace(At(src, e))

DispatchedAsComment(line, src, extensions) ==
    IF extensions /\ StartsWith(src, hugin_prefix)
    THEN /\ line.cls = "hugin_extension_line"
         /\ line.header = hugin_prefix
         /\ ~line.members_is_None
    ELSE IF extensions /\ IsHuginOption(src)
    THEN /\ line.cls = "hugin_option_line"
         /\ StartsWith(line.header, hugin_option_prefix)
         /\ ~line.members_is_None
    ELSE IF extensions /\ StartsWith(src, imgfile_prefix)
    THEN /\ line.cls = "imgfile_extension_line"
         /\ line.header = imgfile_prefix
         /\ ~line.members_is_None
    ELSE line.cls = "pto_line" /\ IsOpaque(line, <<"#">>)

\* C10 (as stated): every line whose first character is '#' is classified by
\* the first test that succeeds, in the order "#-hugin", "#hugin_" and a
\* non-space character, "#-imgfile", else as an opaque comment with header
\* "#"; with extensions disabled it is an opaque comment with header "#"
\* whatever its prefix.
C10_CommentDispatch ==
    pc = "scanned" =>
        \A k \in 1..Len(sequential) :
            pto_data[k][1] = "#"
                => DispatchedAsComment(sequential[k], pto_data[k],
                                       args.scan_extensions)

\* C10 (amended): every line whose first character is '#' and that no line
\* starting with '*' precedes is classified in that way.
C10_CommentDispatchBeforeSentinel ==
    pc = "scanned" =>
        \A k \in 1..Len(sequential) :
            (pto_data[k][1] = "#" /\ ~AfterSentinel(pto_data, k))
                => DispatchedAsComment(sequential[k], pto_data[k],
                                       args.scan_extensions)

\* with extensions disabled a "#-hugin" line has been recorded as an opaque
\* comment, in a file that has a "#hugin_" line too
C10_Witness ==
    /\ pc = "scanned"
    /\ ~args.scan_extensions
    /\ \E k \in 1..Len(sequential) :
          /\ StartsWith(pto_data[k], hugin_prefix)
          /\ ~AfterSentinel(pto_data, k)
          /\ IsOpaque(sequential[k], <<"#">>)
    /\ \E k \in 1..Len(sequential) :
          /\ IsHuginOption(pto_data[k])
          /\ ~AfterSentinel(pto_data, k)
          /\ IsOpaque(sequential[k], <<"#">>)

(***************************************************************************)
(* C11  Projection with missing members.  When load.GET is given a legal   *)
(* file name and a file that pto_scan scans into an object that has image  *)
(* lines (pto.i), it does not fault: it returns one record for each line   *)
(* of pto.i, whichever of the members n, y, p, r, v the line carries.      *)
(***************************************************************************)
C11_ProjectionToleratesMissingMembers ==
    (/\ result.op = "load"
     /\ ~IllegalFilename(env.filename)
     /\ has_member_access
     /\ <<"i">> \in DOMAIN index)
    => /\ fault = ""
       /\ Len(result.records) = Len(index[<<"i">>])

(***************************************************************************)
(* C12  Directory listing.  IsPtoName tells the names list.GET keeps: a    *)
(* stem that is not made of dots only, then a dot and the letters p, t, o  *)
(* in either case.                                                         *)
(***************************************************************************)
IsPtoName(name) ==
    /\ Len(name) > 4
    /\ \E k \in 1..(Len(name) - 4) : name[k] # "."
    /\ name[Len(name) - 3] = "."
    /\ name[Len(name) - 2] \in {"p", "P"}
    /\ name[Len(name) - 1] \in {"t", "T"}
    /\ name[Len(name)] \in {"o", "O"}

\* a name whose extension is the exact string ".pto"
IsExactPtoName(name) ==
    /\ IsPtoName(name)
    /\ SubSeq(name, Len(name) - 3, Len(name)) = <<".", "p", "t", "o">>

\* C12 as stated: the listing returns exactly the file names of the
\* directory whose extension is the exact string ".pto"; over the directory
\* a.pto, b.PTO, readme.txt it returns a.pto only.
C12_ListingCaseSensitive ==
    (result.op = "list" /\ fault = "")
    => /\ result.files = SelectSeq(env.filelist, IsExactPtoName)
       /\ env.filelist = ExampleFilelist => result.files = <<ExampleFilelist[1]>>

\* C12 amended: the listing returns, in the order of the directory, exactly
\* the file names whose extension is ".pto" in any letter case; over the
\* directory a.pto, b.PTO, readme.txt it returns a.pto and b.PTO.
C12_ListingIgnoresCase ==
    (result.op = "list" /\ fault = "")
    => /\ result.files = SelectSeq(env.filelist, IsPtoName)
       /\ env.filelist = ExampleFilelist
          => result.files = <<ExampleFilelist[1], ExampleFilelist[2]>>

\* the listing of the directory a.pto, b.PTO, readme.txt has been returned
\* and holds b.PTO
C12_Witness ==
    /\ result.op = "list"
    /\ fault = ""
    /\ env.filelist = ExampleFilelist
    /\ \E k \in 1..Len(result.files) : result.files[k] = <<"b", ".", "P", "T", "O">>

(***************************************************************************)
(* C13  Handle release on every exit path.  When pto_scan.__init__ (called *)
(* directly or by load_pto) has returned or raised, no file object that it *)
(* opened or was given is still open.                                      *)
(***************************************************************************)
C13_HandleReleased ==
    result.op \in {"pto_scan", "load"} => handle # "open"

(***************************************************************************)
(* C14  Field slots agree with member lookup.  Once the index is built,    *)
(* when select ( q ) on a line has returned a member and the line has a    *)
(* slot named q, the slot holds that member: the first member of the line  *)
(* whose qualifier is q.                                                   *)
(***************************************************************************)
C14_SlotIsSelected ==
    (/\ result.op = "extract"
     /\ fault = ""
     /\ has_member_access
     /\ result.qualifier \in DOMAIN sequential[result.line].attrs)
    => /\ result.found = <<sequential[result.line].attrs[result.qualifier]>>
       /\ \E j \in 1..Len(sequential[result.line].members) :
             /\ sequential[result.line].members[j] = result.found[1]
             /\ \A i \in 1..(j - 1) :
                   sequential[result.line].members[i].type # result.qualifier

(***************************************************************************)
(* C15  Line.member is total.  On every line of a scan, generic, extension *)
(* or opaque, and for every qualifier, select and extract do not fault:    *)
(* they give the first member with that qualifier and its value, or        *)
(* nothing when the line has no such member.                               *)
(***************************************************************************)
C15_SelectIsTotal ==
    result.op = "extract"
    => /\ fault = ""
       /\ Len(result.found) <= 1
       /\ Len(result.found) = Len(result.value)
       /\ result.found = <<>>
          <=> \A j \in 1..Len(sequential[result.line].members) :
                 sequential[result.line].members[j].type # result.qualifier

(***************************************************************************)
(* C16  The structural fault is unreachable.  No construction ends with    *)
(* SyntaxError, and in every scan that was built each member of each       *)
(* generic data line has one of the six datatypes f, r, i, b, s, w.        *)
(***************************************************************************)
C16_NoStructuralFault ==
    /\ fault # "SyntaxError"
    /\ pc = "scanned"
       => \A k \in 1..Len(sequential) :
             (sequential[k].cls = "pto_line" /\ ~sequential[k].members_is_None)
             => \A j \in 1..Len(sequential[k].members) :
                   sequential[k].members[j].datatype
                       \in {"f", "r", "i", "b", "s", "w"}

\* a scan was built of a generic data line with a member whose text, a lone
\* double quote, is matched by the last alternative only
C16_Witness ==
    /\ pc = "scanned"
    /\ result.op = "pto_scan"
    /\ \E k \in 1..Len(sequential) :
          /\ sequential[k].cls = "pto_line"
          /\ ~sequential[k].members_is_None
          /\ \E j \in 1..Len(sequential[k].members) :
                /\ sequential[k].members[j].text = <<"\"">>
                /\ sequential[k].members[j].datatype = "w"

(***************************************************************************)
(* C17  Escaped quotes in strings.  EscapedStringEnd is the position right *)
(* after the quoted string that opens at p when a quote preceded by a      *)
(* backslash does not end it (0 when no other quote follows).  The claim:  *)
(* on a generic data line, where a qualifier letter at the start of a      *)
(* field is followed by such a string that holds an escaped quote, the     *)
(* line has a member with that qualifier, datatype s, whose text is the    *)
(* whole quoted string and whose value is all that is between the outer    *)
(* quotes.                                                                 *)
(***************************************************************************)
EscapedStringEnd(s, p) ==
    LET ends == {q \in (p + 1)..Len(s) : s[q] = "\"" /\ s[q - 1] # "\\"}
    IN  IF At(s, p) = "\"" /\ ends # {}
        THEN 1 + CHOOSE q \in ends : \A r \in ends : q <= r
        ELSE 0

HasEscapedQuote(s, p, e) ==
    \E q \in (p + 1)..(e - 3) : s[q] = "\\" /\ s[q + 1] = "\""

C17_EscapedQuoteKept ==
    pc = "scanned"
    => \A k \in 1..Len(sequential) :
          (sequential[k].cls = "pto_line" /\ ~sequential[k].members_is_None)
          => LET s == sequential[k].sourcecode
             IN  \A p \in 2..Len(s) :
                    LET e == EscapedStringEnd(s, p + 1)
                    IN  (/\ s[p] \in letters
                         /\ (p = 2 \/ s[p - 1] \in Whitespace)
                         /\ e > 0
                         /\ HasEscapedQuote(s, p + 1, e))
                        => \E j \in 1..Len(sequential[k].members) :
                              /\ sequential[k].members[j].type = <<s[p]>>
                              /\ sequential[k].members[j].datatype = "s"
                              /\ sequential[k].members[j].text = Slice(s, p + 1, e)
                              /\ sequential[k].members[j].value.str
                                    = Slice(s, p + 2, e - 1)

(***************************************************************************)
(* C18  Index building leaves the scan results unchanged.  Attribute is    *)
(* what reading an attribute of a line gives: the value the scan stored,   *)
(* or the member object that setattr has put under that name.  The claim:  *)
(* a call of make_member_access keeps the number of lines and, on every    *)
(* line, what sourcecode, lineno, header and members give.                 *)
(***************************************************************************)
Attribute(line, name, stored) ==
    IF Shadowed(line, name)
    THEN [object |-> "pto_member", of |-> line.attrs[name]]
    ELSE [object |-> "stored", of |-> stored]

ScanResult(line) ==
    [sourcecode |-> Attribute(line, sourcecode_name, line.sourcecode),
     lineno     |-> Attribute(line, lineno_name, line.lineno),
     header     |-> Attribute(line, header_name, line.header),
     members    |-> Attribute(line, members_name,
                              <<line.members_is_None, line.members>>)]

C18_IndexBuildingKeepsScan ==
    [][result'.op = "make_member_access"
       => /\ Len(sequential') = Len(sequential)
          /\ \A k \in 1..Len(sequential) :
                ScanResult(sequential'[k]) = ScanResult(sequential[k])]_vars

(***************************************************************************)
(* C19  Line conservation.  After a construction that succeeded, the scan  *)
(* has one line for each line of the input, the k-th of them (from 0)      *)
(* gives k as its lineno and the k-th input line as its sourcecode, before *)
(* and after a '*' line, and the sourcecode texts joined are the input.    *)
(***************************************************************************)
SourceTexts ==
    [k \in 1..Len(sequential) |->
        Attribute(sequential[k], sourcecode_name, sequential[k].sourcecode).of]

C19_LineConservation ==
    (pc = "scanned" /\ result.op = "pto_scan")
    => /\ Len(sequential) = Len(pto_data)
       /\ \A k \in 1..Len(sequential) :
             /\ Attribute(sequential[k], lineno_name, sequential[k].lineno)
                   = [object |-> "stored", of |-> k - 1]
             /\ Attribute(sequential[k], sourcecode_name, sequential[k].sourcecode)
                   = [object |-> "stored", of |-> pto_data[k]]
       /\ Joined(SourceTexts) = Joined(pto_data)

====
